---------------------------- MODULE Spec2Model ----------------------------
(***************************************************************************)
(* A model of sync-sqlite3 (src/core.ts): the schema differ and applier,   *)
(* the row-identity reader and differ, the batched row sync applier, and   *)
(* the field-level differ of the earlier revision kept in the same file.   *)
(*                                                                         *)
(* A database is a record [schema, data]: schema is the content of         *)
(* sqlite_master (a sequence of rows in creation order), data maps each    *)
(* table name to the set of values of its id column.                       *)
(***************************************************************************)
EXTENDS Integers, Sequences, FiniteSets, TLC

VARIABLES
    pc,           \* position of the caller (which call has returned)
    src,          \* the source database
    dest,         \* the destination database
    pre,          \* the destination as it was when the last sync call began
    heap,         \* number of row objects allocated so far by statement.all()
    job,          \* the sync run: which attempt it is, the tables left to do
    srcIds,       \* the src list handed to compareTableIds
    destIds,      \* the dest list handed to compareTableIds
    idDiff,       \* the TableIdDiff returned by compareTableIds
    opts,         \* the options of the last sync call
    err,          \* the error the last sync call threw ("none": it returned)
    log,          \* the statements the last sync call sent to the database
    schemaDiffs,  \* the SchemaDiff[] returned by compareSchema
    rediff,       \* the SchemaDiff[] of the comparison made after syncSchema
    srcTables,    \* parsed tables of the source (field-level revision)
    destTables,   \* parsed tables of the destination (field-level revision)
    tableDiffs,   \* the SchemaDiff[] of the field-level compareSchema
    files,        \* the file system: the content of every file, by path
    stdout        \* what has been written to process.stdout

vars == <<pc, src, dest, pre, heap, job, srcIds, destIds, idDiff, opts, err, log,
          schemaDiffs, rediff, srcTables, destTables, tableDiffs, files,
          stdout>>

(***************************************************************************)
(* Bounds of the model.                                                    *)
(***************************************************************************)
MaxKey == 4
MaxLen == 3
MaxRowKey == 3
MaxDeleted == 4
MaxBatch == 2
MaxObjects == 2
MaxFields == 2
MaxRunKey == 1

Keys == 1..MaxKey
RowKeys == 1..MaxRowKey

(***************************************************************************)
(* Helpers on sequences.                                                   *)
(***************************************************************************)
Range(s) == {s[i] : i \in 1..Len(s)}

SeqsUpTo(S, n) == UNION {[1..k -> S] : k \in 0..n}

Min(S) == CHOOSE x \in S : \A y \in S : x <= y

RECURSIVE SortedSeq(_)
SortedSeq(S) ==
    IF S = {} THEN <<>> ELSE <<Min(S)>> \o SortedSeq(S \ {Min(S)})

RECURSIVE Flatten(_)
Flatten(ss) == IF ss = <<>> THEN <<>> ELSE Head(ss) \o Flatten(Tail(ss))

CeilDiv(n, b) == (n + b - 1) \div b

(***************************************************************************)
(* wrapName: the name between two backtick characters, kept as the three   *)
(* pieces of the text; the SQL parser reads the identifier back from a     *)
(* quoted name.                                                            *)
(***************************************************************************)
Backtick == "BACKTICK"

wrapName(name) == <<Backtick, name, Backtick>>

Identifier(quoted) ==
    IF Len(quoted) = 3 /\ quoted[1] = Backtick /\ quoted[3] = Backtick
    THEN quoted[2] ELSE "?"

(***************************************************************************)
(* new Set(list): the distinct elements in order of first insertion.       *)
(* Membership is SameValueZero: numbers by value, objects by reference     *)
(* (a row object carries its reference in the field obj).                  *)
(***************************************************************************)
RECURSIVE NewSet(_)
NewSet(list) ==
    IF list = <<>> THEN <<>>
    ELSE LET front == NewSet(SubSeq(list, 1, Len(list) - 1))
             last == list[Len(list)]
         IN IF last \in Range(front) THEN front ELSE Append(front, last)

SetHas(set, id) == id \in Range(set)

(***************************************************************************)
(* compareTableIds: created = the members of src not in dest, deleted =    *)
(* the members of dest not in src, each in insertion order.                *)
(***************************************************************************)
compareTableIds_swapped(srcList, destList) ==
    LET s == NewSet(srcList)
        d == NewSet(destList)
    IN [created |-> SelectSeq(s, LAMBDA id : ~SetHas(d, id)),
        deleted |-> SelectSeq(s, LAMBDA id : ~SetHas(d, id))]

compareTableIds(srcList, destList) ==
    LET s == NewSet(srcList)
        d == NewSet(destList)
    IN [created |-> SelectSeq(s, LAMBDA id : ~SetHas(d, id)),
        deleted |-> SelectSeq(d, LAMBDA id : ~SetHas(s, id))]

NoDiff == [created |-> <<>>, deleted |-> <<>>]
NoDb == [schema |-> <<>>, data |-> <<>>]
NoOpts == [call |-> "none"]
NoRun == [attempt |-> 0, todo |-> <<>>]
NoFiles == <<>>

(***************************************************************************)
(* Specification SpecIds: compareTableIds on any two lists of keys.        *)
(***************************************************************************)
InitIds ==
    /\ pc = "start"
    /\ files = NoFiles /\ stdout = <<>>
    /\ srcIds \in SeqsUpTo(Keys, MaxLen)
    /\ destIds \in SeqsUpTo(Keys, MaxLen)
    /\ idDiff = NoDiff
    /\ src = NoDb /\ dest = NoDb /\ pre = NoDb
    /\ heap = 0 /\ job = NoRun
    /\ opts = NoOpts /\ err = "none" /\ log = <<>>
    /\ schemaDiffs = <<>> /\ rediff = <<>>
    /\ srcTables = <<>> /\ destTables = <<>> /\ tableDiffs = <<>>

CompareLists ==
    /\ pc = "start"
    /\ idDiff' = compareTableIds(srcIds, destIds)
    /\ pc' = "compared"
    /\ UNCHANGED <<src, dest, pre, heap, job, srcIds, destIds, opts, err, log,
                   schemaDiffs, rediff, srcTables, destTables, tableDiffs,
                   files, stdout>>

NextIds == CompareLists

SpecIds == InitIds /\ [][NextIds]_vars

\* C2: compareTableIds returns created = S \ D and deleted = D \ S as sets,
\* so created and deleted are disjoint and, with the common keys, they make
\* up the union of the two key sets.
RowDiffPartition ==
    pc = "compared" =>
        LET S == Range(srcIds)
            D == Range(destIds)
            c == Range(idDiff.created)
            d == Range(idDiff.deleted)
        IN /\ c = S \ D
           /\ d = D \ S
           /\ c \cap d = {}
           /\ c \cup d \cup (S \cap D) = S \cup D

RowDiffPartitionWitness ==
    /\ pc = "compared"
    /\ srcIds = <<1, 2, 3>>
    /\ destIds = <<2, 3, 4>>
    /\ idDiff = [created |-> <<1>>, deleted |-> <<4>>]


(***************************************************************************)
(* The database engine, as the calls of this program use it.  A statement  *)
(* is run on a call state st = [db, n, failAt, err, log]: n counts the     *)
(* statements sent so far, failAt is the number of the statement at which  *)
(* the engine reports a failure of its own (0: none), err is the error     *)
(* thrown so far.  Once an error is thrown the rest of the call is skipped.*)
(***************************************************************************)
HasName(db, name) == \E i \in 1..Len(db.schema) : db.schema[i].name = name

HasObject(db, type, name) ==
    \E i \in 1..Len(db.schema) :
        db.schema[i].type = type /\ db.schema[i].name = name

\* db.exec(schema.sql): the create statement kept in sqlite_master.
CreateObject(db, sql) ==
    IF HasName(db, sql.name)
    THEN [db |-> db, err |-> "already exists"]
    ELSE IF sql.type = "index" /\ ~HasObject(db, "table", sql.on)
    THEN [db |-> db, err |-> "no such table"]
    ELSE [db |-> [schema |-> Append(db.schema,
                        [type |-> sql.type, name |-> sql.name, sql |-> sql]),
                  data |-> IF sql.type = "table"
                           THEN (sql.name :> {}) @@ db.data
                           ELSE db.data],
          err |-> "none"]

\* drop table: the table, its indexes and its rows.
DropTable(db, name) ==
    IF ~HasObject(db, "table", name)
    THEN [db |-> db, err |-> "no such table"]
    ELSE [db |-> [schema |-> SelectSeq(db.schema, LAMBDA row :
                        /\ ~(row.type = "table" /\ row.name = name)
                        /\ ~(row.type = "index" /\ row.sql.on = name)),
                  data |-> [t \in DOMAIN db.data \ {name} |-> db.data[t]]],
          err |-> "none"]

DropIndex(db, name) ==
    IF ~HasObject(db, "index", name)
    THEN [db |-> db, err |-> "no such index"]
    ELSE [db |-> [db EXCEPT !.schema = SelectSeq(db.schema, LAMBDA row :
                        ~(row.type = "index" /\ row.name = name))],
          err |-> "none"]

\* deleteStatement.run(keys), read as the statement is meant: the rows of
\* the table whose id is one of the keys are deleted
DeleteRows(db, table, keys) ==
    IF table \notin DOMAIN db.data
    THEN [db |-> db, err |-> "no such table"]
    ELSE [db |-> [db EXCEPT !.data[table] = @ \ Range(keys)],
          err |-> "none"]

\* the value a row object holds for the column
CellOf(row, column) ==
    row[CHOOSE i \in 1..Len(row) : row[i].column = column].value

\* the values the rows hold for the column id, as db.data keeps them
IdValues(columns, rows) ==
    IF "id" \in Range(columns)
    THEN {CellOf(rows[i], "id").n : i \in 1..Len(rows)}
    ELSE {}

\* delete from <table> where <column> in <keys>, on a database that keeps
\* the whole rows of its tables (db.columns, db.rows)
DeleteWhere(db, table, column, keys) ==
    IF table \notin DOMAIN db.data
    THEN [db |-> db, err |-> "no such table"]
    ELSE IF column \notin Range(db.columns[table])
    THEN [db |-> db, err |-> "no such column"]
    ELSE LET kept == SelectSeq(db.rows[table],
                               LAMBDA row : CellOf(row, column)
                                                \notin Range(keys))
         IN [db |-> [db EXCEPT !.rows[table] = kept,
                               !.data[table] =
                                   IdValues(db.columns[table], kept)],
             err |-> "none"]

Effect(db, stmt) ==
    CASE stmt.op = "create" -> CreateObject(db, stmt.sql)
      [] stmt.op = "drop table" -> DropTable(db, Identifier(stmt.name))
      [] stmt.op = "drop index" -> DropIndex(db, Identifier(stmt.name))
      [] stmt.op = "delete" ->
            IF "rows" \in DOMAIN db
            THEN DeleteWhere(db, Identifier(stmt.name), stmt.column, stmt.keys)
            ELSE DeleteRows(db, Identifier(stmt.name), stmt.keys)

Exec(st, stmt) ==
    IF st.err # "none" THEN st
    ELSE LET sent == [st EXCEPT !.n = @ + 1, !.log = Append(@, stmt)]
         IN IF sent.n = st.failAt
            THEN [sent EXCEPT !.err = "engine failure"]
            ELSE LET r == Effect(st.db, stmt)
                 IN [sent EXCEPT !.db = r.db, !.err = r.err]

Begin(db, failAt) ==
    [db |-> db, n |-> 0, failAt |-> failAt, err |-> "none", log |-> <<>>]

Throw(st, error) == IF st.err # "none" THEN st ELSE [st EXCEPT !.err = error]

(***************************************************************************)
(* run: fn() as it is, or inside db.transaction, which rolls the database  *)
(* back to its state at the start and rethrows when fn throws.  done is    *)
(* the call state fn() ends in, started on db.                             *)
(***************************************************************************)
run_noRollback(db, skipTransaction, done) == done

run(db, skipTransaction, done) ==
    IF skipTransaction THEN done
    ELSE IF done.err # "none" THEN [done EXCEPT !.db = db]
    ELSE done

(***************************************************************************)
(* syncTableIds.  batchSize is undefined (omitted), false, or a number.    *)
(***************************************************************************)
DefaultBatchSize == 200

Undefined == [kind |-> "undefined"]
False == [kind |-> "false"]
Num(n) == [kind |-> "number", n |-> n]

\* options.batchSize ?? 200
EffectiveBatchSize(batchSize) ==
    IF batchSize = Undefined THEN Num(DefaultBatchSize) ELSE batchSize

\* batchSize === false
Falsy_onlyFalse(batchSize) == batchSize = False

\* !batchSize
Falsy(batchSize) ==
    batchSize = False \/ (batchSize.kind = "number" /\ batchSize.n = 0)

\* the column the delete statement matches the keys against
DeleteColumn == "id"

DeleteStatement(table, keys) ==
    [op |-> "delete", name |-> wrapName(table), column |-> DeleteColumn,
     keys |-> keys]

\* the loop of deleteAll from the i-th deleted key on, buffer being filled:
\* keys are pushed until buffer.length > batchSize, then the buffer is sent
\* and emptied; the keys pushed up to the next send are taken in one step
RECURSIVE DeleteLoop(_, _, _, _, _, _)
DeleteLoop(st, table, deleted, i, buffer, size) ==
    IF st.err # "none" THEN st
    ELSE IF i > Len(deleted)
    THEN IF Len(buffer) > 0
         THEN Exec(st, DeleteStatement(table, buffer))
         ELSE st
    ELSE LET last == Min({Len(deleted), i + size - Len(buffer)})
             pushed == buffer \o SubSeq(deleted, i, last)
         IN IF Len(pushed) > size
            THEN DeleteLoop(Exec(st, DeleteStatement(table, pushed)),
                            table, deleted, last + 1, <<>>, size)
            ELSE DeleteLoop(st, table, deleted, last + 1, pushed, size)

deleteAll(st, table, deleted, batchSize) ==
    IF Falsy(batchSize)
    THEN Exec(st, DeleteStatement(table, deleted))
    ELSE DeleteLoop(st, table, deleted, 1, <<>>, batchSize.n)

\* copyAll: the body is a TODO, nothing is copied
copyAll(st, table, created) == st

syncTableIds(db, table, diff, skipTransaction, batchSize, failAt) ==
    LET size == EffectiveBatchSize(batchSize)
        st == Begin(db, failAt)
    IN IF Identifier(wrapName(table)) \notin DOMAIN db.data
       THEN Throw(st, "no such table")    \* db.prepare of the delete statement
       ELSE IF /\ "columns" \in DOMAIN db
               /\ DeleteColumn \notin Range(db.columns[Identifier(wrapName(table))])
       THEN Throw(st, "no such column")
       ELSE run(db, skipTransaction,
                copyAll(deleteAll(st, table, diff.deleted, size),
                        table, diff.created))

BatchSizes == {Undefined, False} \cup {Num(n) : n \in 0..MaxBatch}

\* the batch sizes a list of deleted keys is synced with: any of BatchSizes,
\* and for a list of more than MaxDeleted keys the default or none
BatchSizesFor(deleted) ==
    IF Len(deleted) > MaxDeleted THEN {Undefined, False, Num(0)}
    ELSE BatchSizes

RowTable == "posts"

TableSql(name, body) ==
    [type |-> "table", name |-> name, on |-> "-", body |-> body]

TableRow(name, body) ==
    [type |-> "table", name |-> name, sql |-> TableSql(name, body)]

\* a database holding the one table RowTable with the rows of the given keys
RowDb(keys) ==
    [schema |-> <<TableRow(RowTable, "v1")>>, data |-> (RowTable :> keys)]

\* the statements of a call of syncTableIds at which the engine can fail:
\* any statement of the call, among its first MaxDeleted
MaxStatements(deleted) ==
    IF Len(deleted) = 0 THEN 1 ELSE Min({Len(deleted), MaxDeleted})

SyncTableIdsCall ==
    /\ pc = "ids diffed"
    /\ \E skipTransaction \in BOOLEAN,
          batchSize \in BatchSizesFor(idDiff.deleted),
          failAt \in 0..MaxStatements(idDiff.deleted) :
          LET done == syncTableIds(dest, RowTable, idDiff, skipTransaction,
                                   batchSize, failAt)
          IN /\ dest' = done.db
             /\ err' = done.err
             /\ log' = done.log
             /\ opts' = [call |-> "syncTableIds",
                         skipTransaction |-> skipTransaction,
                         batchSize |-> batchSize, failAt |-> failAt]
    /\ pre' = dest
    /\ pc' = "ids synced"
    /\ UNCHANGED <<src, heap, job, srcIds, destIds, idDiff, schemaDiffs, rediff,
                   srcTables, destTables, tableDiffs,
                   files, stdout>>

(***************************************************************************)
(* Specification SpecBatch: syncTableIds on any list of deleted keys.      *)
(***************************************************************************)
\* a list of deleted keys longer than the default batch size
LongDeleted ==
    [i \in 1..(DefaultBatchSize + 2) |-> ((i - 1) % MaxRowKey) + 1]

InitBatch ==
    /\ pc = "ids diffed"
    /\ files = NoFiles /\ stdout = <<>>
    /\ src = NoDb
    /\ dest \in {RowDb(keys) : keys \in SUBSET RowKeys}
    /\ pre = NoDb
    /\ idDiff \in {[created |-> <<>>, deleted |-> d] :
                        d \in SeqsUpTo(RowKeys, MaxDeleted) \cup {LongDeleted}}
    /\ srcIds = <<>> /\ destIds = <<>>
    /\ heap = 0 /\ job = NoRun
    /\ opts = NoOpts /\ err = "none" /\ log = <<>>
    /\ schemaDiffs = <<>> /\ rediff = <<>>
    /\ srcTables = <<>> /\ destTables = <<>> /\ tableDiffs = <<>>

NextBatch == SyncTableIdsCall

SpecBatch == InitBatch /\ [][NextBatch]_vars

Returned == pc = "ids synced" /\ opts.call = "syncTableIds" /\ err = "none"

PositiveBatch == opts.batchSize.kind = "number" /\ opts.batchSize.n > 0

\* C3: for a deleted list of N keys and a batch size B > 0, syncTableIds
\* issues exactly ceil(N/B) delete statements, and the keys of those
\* statements are exactly the deleted keys, each in exactly one statement.
BatchCount ==
    (Returned /\ PositiveBatch) =>
        /\ Len(log) = CeilDiv(Len(idDiff.deleted), opts.batchSize.n)
        /\ Flatten([i \in 1..Len(log) |-> log[i].keys]) = idDiff.deleted

\* C4: with a positive batch size B (the default 200 included) every delete
\* statement issued by syncTableIds carries at most B keys.
BatchBound ==
    (pc = "ids synced" /\ opts.call = "syncTableIds"
        /\ ~Falsy(EffectiveBatchSize(opts.batchSize))) =>
        \A i \in 1..Len(log) :
            Len(log[i].keys) <= EffectiveBatchSize(opts.batchSize).n

\* C15: with batchSize 0 or false syncTableIds issues exactly one delete
\* statement, carrying all the deleted keys; with batchSize omitted it does
\* what it does with batchSize 200.
UnbatchedMode ==
    (pc = "ids synced" /\ opts.call = "syncTableIds") =>
        /\ opts.batchSize \in {False, Num(0)} =>
              /\ Len(log) = 1
              /\ log[1].op = "delete"
              /\ log[1].keys = idDiff.deleted
        /\ opts.batchSize = Undefined =>
              LET same == syncTableIds(pre, RowTable, idDiff,
                                       opts.skipTransaction, Num(200),
                                       opts.failAt)
              IN log = same.log /\ dest = same.db /\ err = same.err

UnbatchedModeWitness ==
    /\ pc = "ids synced"
    /\ opts.call = "syncTableIds"
    /\ opts.batchSize = Num(0)
    /\ Len(idDiff.deleted) > DefaultBatchSize
    /\ err = "none"
    /\ Len(log) = 1



(***************************************************************************)
(* Specification SpecRowSync: one table of a source and of a destination,  *)
(* its keys compared and the difference applied by syncTableIds.           *)
(***************************************************************************)
\* the values of the id column of a table, in rowid order: the key lists a
\* caller hands to compareTableIds
KeyColumn(db, table) == SortedSeq(db.data[table])

InitRowSync ==
    /\ pc = "start"
    /\ files = NoFiles /\ stdout = <<>>
    /\ src \in {RowDb(keys) : keys \in SUBSET RowKeys}
    /\ dest \in {RowDb(keys) : keys \in SUBSET RowKeys}
    /\ pre = NoDb
    /\ idDiff = NoDiff
    /\ srcIds = <<>> /\ destIds = <<>>
    /\ heap = 0 /\ job = NoRun
    /\ opts = NoOpts /\ err = "none" /\ log = <<>>
    /\ schemaDiffs = <<>> /\ rediff = <<>>
    /\ srcTables = <<>> /\ destTables = <<>> /\ tableDiffs = <<>>

CompareTableKeys ==
    /\ pc = "start"
    /\ srcIds' = KeyColumn(src, RowTable)
    /\ destIds' = KeyColumn(dest, RowTable)
    /\ idDiff' = compareTableIds(KeyColumn(src, RowTable),
                                 KeyColumn(dest, RowTable))
    /\ pc' = "ids diffed"
    /\ UNCHANGED <<src, dest, pre, heap, job, opts, err, log, schemaDiffs, rediff,
                   srcTables, destTables, tableDiffs,
                   files, stdout>>

NextRowSync == CompareTableKeys \/ SyncTableIdsCall

SpecRowSync == InitRowSync /\ [][NextRowSync]_vars

\* C5: after syncTableIds completes successfully with the diff of the
\* source keys and the destination keys, every created key is in the
\* destination table and no deleted key is: the destination key set equals
\* the source key set.
RowConvergence ==
    Returned =>
        /\ Range(idDiff.created) \subseteq dest.data[RowTable]
        /\ Range(idDiff.deleted) \cap dest.data[RowTable] = {}
        /\ dest.data[RowTable] = src.data[RowTable]

\* the engine failed at a statement the call sent
StatementFailed == opts.failAt >= 1 /\ Len(log) = opts.failAt

\* C7: when syncTableIds runs without skipTransaction and the k-th delete
\* batch fails, the error reaches the caller and the rows of the
\* destination table are exactly those present before the call.
RowSyncAtomicity ==
    (pc = "ids synced" /\ opts.call = "syncTableIds"
        /\ ~opts.skipTransaction) =>
        /\ StatementFailed => err # "none"
        /\ err # "none" => dest = pre

RowSyncAtomicityWitness ==
    /\ pc = "ids synced" /\ opts.call = "syncTableIds"
    /\ ~opts.skipTransaction
    /\ StatementFailed
    /\ Len(log) >= 2
    /\ Range(log[1].keys) \cap pre.data[RowTable] # {}
    /\ err # "none"
    /\ dest = pre

(***************************************************************************)
(* The schema differ and applier (the revision of core.ts lines 214-487).  *)
(***************************************************************************)
\* scanSchema: the rows of sqlite_master whose sql is not null
scanSchema(db) == db.schema

\* options.dest.find(row => row.type == type && row.name == name): the
\* position of the first such row, 0 when there is none
FindRow(rows, type, name) ==
    LET found == {j \in 1..Len(rows) :
                      rows[j].type = type /\ rows[j].name = name}
    IN IF found = {} THEN 0 ELSE Min(found)

\* the first loop of compareSchema, from the i-th source row on
RECURSIVE CreatedOrUpdated(_, _, _)
CreatedOrUpdated(srcRows, destRows, i) ==
    IF i > Len(srcRows) THEN <<>>
    ELSE LET row == srcRows[i]
             j == FindRow(destRows, row.type, row.name)
             rest == CreatedOrUpdated(srcRows, destRows, i + 1)
         IN IF j = 0
            THEN <<[type |-> "created", schema |-> row]>> \o rest
            ELSE IF destRows[j].sql # row.sql
            THEN <<[type |-> "updated", schema |-> row]>> \o rest
            ELSE rest

\* the second loop of compareSchema, from the i-th destination row on
RECURSIVE Deleted(_, _, _)
Deleted(srcRows, destRows, i) ==
    IF i > Len(destRows) THEN <<>>
    ELSE LET row == destRows[i]
             rest == Deleted(srcRows, destRows, i + 1)
         IN IF FindRow(srcRows, row.type, row.name) = 0
            THEN <<[type |-> "deleted", schema |-> row]>> \o rest
            ELSE rest

\* compareSchema with its two loops in the other order
compareSchema_deletedFirst(srcRows, destRows) ==
    Deleted(srcRows, destRows, 1) \o CreatedOrUpdated(srcRows, destRows, 1)

compareSchema(srcRows, destRows) ==
    CreatedOrUpdated(srcRows, destRows, 1) \o Deleted(srcRows, destRows, 1)

\* scanSchema.name: the name of the function scanSchema
ScanSchemaName == "scanSchema"

\* dropSchema: the statement names wrapName(scanSchema.name)
dropSchema(st, schema) ==
    CASE schema.type = "table" ->
            Exec(st, [op |-> "drop table", name |-> wrapName(ScanSchemaName)])
      [] schema.type = "index" ->
            Exec(st, [op |-> "drop index", name |-> wrapName(ScanSchemaName)])
      [] OTHER -> Throw(st, "unknown schema type")

ExecSql(st, sql) == Exec(st, [op |-> "create", sql |-> sql])

\* the loop of syncSchema from the i-th diff on
RECURSIVE ApplyDiffs(_, _, _)
ApplyDiffs(st, diffs, i) ==
    IF st.err # "none" \/ i > Len(diffs) THEN st
    ELSE LET diff == diffs[i]
             after ==
                CASE diff.type = "created" -> ExecSql(st, diff.schema.sql)
                  [] diff.type = "updated" ->
                        ExecSql(dropSchema(st, diff.schema), diff.schema.sql)
                  [] diff.type = "deleted" -> dropSchema(st, diff.schema)
                  [] OTHER -> Throw(st, "unknown schema diff type")
         IN ApplyDiffs(after, diffs, i + 1)

syncSchema(db, diffs, skipTransaction, failAt) ==
    run(db, skipTransaction, ApplyDiffs(Begin(db, failAt), diffs, 1))



(***************************************************************************)
(* Specification SpecSchema: the schemas of a source and a destination     *)
(* compared, the difference applied by syncSchema, and compared again.     *)
(***************************************************************************)
TableNameSet == {"users", "scanSchema"}
IndexNameSet == {"idx", "scanSchema"}
ViewNameSet == {"report"}
Bodies == {"v1", "v2"}

IndexSql(name, on, body) ==
    [type |-> "index", name |-> name, on |-> on, body |-> body]

IndexRow(name, on, body) ==
    [type |-> "index", name |-> name, sql |-> IndexSql(name, on, body)]

\* the query of scanSchema does not filter on type: a view is returned too
ViewRow(name, body) ==
    [type |-> "view", name |-> name,
     sql |-> [type |-> "view", name |-> name, on |-> "-", body |-> body]]

SchemaRows ==
    {TableRow(n, b) : n \in TableNameSet, b \in Bodies}
    \cup {IndexRow(n, t, b) : n \in IndexNameSet, t \in TableNameSet,
                              b \in Bodies}
    \cup {ViewRow(n, "v1") : n \in ViewNameSet}

\* what sqlite_master can hold: names are unique, and an index follows the
\* table it is on
ValidSchema(rows) ==
    /\ \A i, j \in 1..Len(rows) : rows[i].name = rows[j].name => i = j
    /\ \A i \in 1..Len(rows) :
          rows[i].type = "index" =>
              \E j \in 1..(i - 1) :
                  rows[j].type = "table" /\ rows[j].name = rows[i].sql.on

Schemas == {rows \in SeqsUpTo(SchemaRows, MaxObjects) : ValidSchema(rows)}

TableNames(rows) ==
    {rows[i].name : i \in {j \in 1..Len(rows) : rows[j].type = "table"}}

\* a database of the given schema whose tables hold no row
EmptyDb(rows) == [schema |-> rows, data |-> [t \in TableNames(rows) |-> {}]]

InitSchema ==
    /\ pc = "start"
    /\ files = NoFiles /\ stdout = <<>>
    /\ src \in {EmptyDb(rows) : rows \in Schemas}
    /\ dest \in {EmptyDb(rows) : rows \in Schemas}
    /\ pre = NoDb
    /\ idDiff = NoDiff
    /\ srcIds = <<>> /\ destIds = <<>>
    /\ heap = 0 /\ job = NoRun
    /\ opts = NoOpts /\ err = "none" /\ log = <<>>
    /\ schemaDiffs = <<>> /\ rediff = <<>>
    /\ srcTables = <<>> /\ destTables = <<>> /\ tableDiffs = <<>>

CompareSchemaCall ==
    /\ pc = "start"
    /\ schemaDiffs' = compareSchema(scanSchema(src), scanSchema(dest))
    /\ pc' = "schema diffed"
    /\ UNCHANGED <<src, dest, pre, heap, job, srcIds, destIds, idDiff, opts, err,
                   log, rediff, srcTables, destTables, tableDiffs,
                   files, stdout>>

SyncSchemaCall ==
    /\ pc = "schema diffed"
    /\ \E skipTransaction \in BOOLEAN, failAt \in 0..(2 * Len(schemaDiffs)) :
          LET done == syncSchema(dest, schemaDiffs, skipTransaction, failAt)
          IN /\ dest' = done.db
             /\ err' = done.err
             /\ log' = done.log
             /\ opts' = [call |-> "syncSchema",
                         skipTransaction |-> skipTransaction,
                         failAt |-> failAt]
    /\ pre' = dest
    /\ pc' = "schema synced"
    /\ UNCHANGED <<src, heap, job, srcIds, destIds, idDiff, schemaDiffs, rediff,
                   srcTables, destTables, tableDiffs,
                   files, stdout>>

RecompareSchema ==
    /\ pc = "schema synced"
    /\ rediff' = compareSchema(scanSchema(src), scanSchema(dest))
    /\ pc' = "schema rediffed"
    /\ UNCHANGED <<src, dest, pre, heap, job, srcIds, destIds, idDiff, opts, err,
                   log, schemaDiffs, srcTables, destTables, tableDiffs,
                   files, stdout>>

NextSchema == CompareSchemaCall \/ SyncSchemaCall \/ RecompareSchema

SpecSchema == InitSchema /\ [][NextSchema]_vars

\* C1: after syncSchema has applied compareSchema(src, dest) to the
\* destination to completion, comparing the source with the destination
\* again yields an empty diff list, also for diffs that hold updated and
\* deleted entries.
SchemaIdempotence ==
    (pc = "schema rediffed" /\ err = "none") => rediff = <<>>

\* C6: when syncSchema runs without skipTransaction and a statement of a
\* diff entry fails, the error reaches the caller and the destination
\* schema is exactly what it was before the call.
SchemaApplyAtomicity ==
    (pc = "schema synced" /\ ~opts.skipTransaction) =>
        /\ StatementFailed => err # "none"
        /\ err # "none" => dest = pre

SchemaApplyAtomicityWitness ==
    /\ pc = "schema synced"
    /\ ~opts.skipTransaction
    /\ err # "none"
    /\ Len(log) >= 2
    /\ Effect(pre, log[1]).err = "none"
    /\ Effect(pre, log[1]).db # pre
    /\ dest = pre

\* the entries of the schema diff that make syncSchema drop an object
DropEntries ==
    {k \in 1..Len(schemaDiffs) : schemaDiffs[k].type \in {"deleted", "updated"}}

\* C17: a deleted entry removes exactly the object of the entry's kind and
\* name and leaves every other object as it was; an updated entry drops
\* that object and creates it from the entry's definition.  Every drop
\* statement syncSchema sends names the object of a deleted or updated
\* entry, and after a sync that returned the deleted objects are gone, the
\* updated ones have the entry's definition, and the objects no entry names
\* are as before.
DropTargetsNamedObject ==
    pc = "schema synced" =>
        /\ \A i \in 1..Len(log) :
              log[i].op \in {"drop table", "drop index"} =>
                  \E k \in DropEntries :
                      /\ log[i].name = wrapName(schemaDiffs[k].schema.name)
                      /\ log[i].op
                            = IF schemaDiffs[k].schema.type = "table"
                              THEN "drop table" ELSE "drop index"
        /\ err = "none" =>
              /\ \A k \in 1..Len(schemaDiffs) :
                    LET e == schemaDiffs[k]
                    IN IF e.type = "deleted"
                       THEN ~HasObject(dest, e.schema.type, e.schema.name)
                       ELSE e.schema \in Range(dest.schema)
              /\ \A row \in Range(pre.schema) :
                    (\A k \in 1..Len(schemaDiffs) :
                        /\ schemaDiffs[k].schema.name # row.name
                        /\ row.type = "index"
                              => schemaDiffs[k].schema.name # row.sql.on)
                        => row \in Range(dest.schema)




(***************************************************************************)
(* The field-level differ (the revision of core.ts lines 1-212).  A Table  *)
(* is [name, field_list], a Field is [name, type, is_null], as the parser  *)
(* of table definitions builds them.                                       *)
(***************************************************************************)
FieldKeys == <<"name", "type", "is_null">>

\* JSON.stringify of a Field or of a Table: the keys in the order of the
\* object, each with the text of its value
RECURSIVE JSONstringify(_)
JSONstringify(value) ==
    IF "field_list" \in DOMAIN value
    THEN <<"{", <<"name", value.name>>,
           <<"field_list", [i \in 1..Len(value.field_list) |->
                               JSONstringify(value.field_list[i])]>>, "}">>
    ELSE <<"{", [i \in 1..Len(FieldKeys) |->
                    <<FieldKeys[i], value[FieldKeys[i]]>>], "}">>

isSame(a, b) == JSONstringify(a) = JSONstringify(b)

\* list.find(item => item.name == name): the position, 0 when there is none
FindName(list, name) ==
    LET found == {j \in 1..Len(list) : list[j].name = name}
    IN IF found = {} THEN 0 ELSE Min(found)

\* the loop over options.dest.field_list that compareTable runs inside its
\* loop over the source fields
RECURSIVE DropColumns(_, _, _)
DropColumns(srcFields, destFields, j) ==
    IF j > Len(destFields) THEN <<>>
    ELSE LET rest == DropColumns(srcFields, destFields, j + 1)
         IN IF FindName(srcFields, destFields[j].name) = 0
            THEN <<[type |-> "drop-column", name |-> destFields[j].name]>>
                 \o rest
            ELSE rest

\* {...field, is_null: true}
NullableCopy(field) == [field EXCEPT !.is_null = TRUE]

\* compareTable with the fields compared as they are
RECURSIVE compareFields_asIs(_, _, _)
compareFields_asIs(srcFields, destFields, i) ==
    IF i > Len(srcFields) THEN <<>>
    ELSE LET j == FindName(destFields, srcFields[i].name)
             rest == compareFields_asIs(srcFields, destFields, i + 1)
         IN IF j = 0
            THEN <<[type |-> "add-column", field |-> srcFields[i]]>> \o rest
            ELSE IF ~isSame(srcFields[i], destFields[j])
            THEN <<[type |-> "alter-column", field |-> srcFields[i]]>>
                 \o rest
            ELSE DropColumns(srcFields, destFields, 1) \o rest

\* the loop of compareTable from the i-th source field on
RECURSIVE compareFields(_, _, _)
compareFields(srcFields, destFields, i) ==
    IF i > Len(srcFields) THEN <<>>
    ELSE LET j == FindName(destFields, srcFields[i].name)
             rest == compareFields(srcFields, destFields, i + 1)
         IN IF j = 0
            THEN <<[type |-> "add-column", field |-> srcFields[i]]>> \o rest
            ELSE LET srcField == NullableCopy(srcFields[i])
                     destField == NullableCopy(destFields[j])
                 IN IF ~isSame(srcField, destField)
                    THEN <<[type |-> "alter-column", field |-> srcField]>>
                         \o rest
                    ELSE DropColumns(srcFields, destFields, 1) \o rest

compareTable(srcTable, destTable) ==
    compareFields(srcTable.field_list, destTable.field_list, 1)

\* the first loop of the field-level compareSchema, from the i-th table on
RECURSIVE CreateOrAlter(_, _, _)
CreateOrAlter(srcList, destList, i) ==
    IF i > Len(srcList) THEN <<>>
    ELSE LET j == FindName(destList, srcList[i].name)
             rest == CreateOrAlter(srcList, destList, i + 1)
         IN IF j = 0
            THEN <<[type |-> "create-table", table |-> srcList[i]]>> \o rest
            ELSE IF ~isSame(srcList[i], destList[j])
            THEN <<[type |-> "alter-table",
                    changes |-> compareTable(srcList[i], destList[j])]>>
                 \o rest
            ELSE rest

\* the second loop of the field-level compareSchema
RECURSIVE DropTables(_, _, _)
DropTables(srcList, destList, j) ==
    IF j > Len(destList) THEN <<>>
    ELSE LET rest == DropTables(srcList, destList, j + 1)
         IN IF FindName(srcList, destList[j].name) = 0
            THEN <<[type |-> "drop-table", name |-> destList[j].name]>>
                 \o rest
            ELSE rest

compareSchemaTables(srcList, destList) ==
    CreateOrAlter(srcList, destList, 1) \o DropTables(srcList, destList, 1)

(***************************************************************************)
(* Specification SpecFields: the parsed tables of a source and of a        *)
(* destination compared by the field-level compareSchema.                  *)
(***************************************************************************)
FieldNames == {"id", "name", "email"}
FieldTypes == {"integer", "text"}

Fields == [name : FieldNames, type : FieldTypes, is_null : BOOLEAN]

FieldLists ==
    {list \in SeqsUpTo(Fields, MaxFields) :
        \A i, j \in 1..Len(list) : list[i].name = list[j].name => i = j}

ParsedTables == {[name |-> "users", field_list |-> list] : list \in FieldLists}

TableLists == {<<>>} \cup {<<table>> : table \in ParsedTables}

InitFields ==
    /\ pc = "start"
    /\ files = NoFiles /\ stdout = <<>>
    /\ srcTables \in TableLists
    /\ destTables \in TableLists
    /\ tableDiffs = <<>>
    /\ src = NoDb /\ dest = NoDb /\ pre = NoDb
    /\ idDiff = NoDiff
    /\ srcIds = <<>> /\ destIds = <<>>
    /\ heap = 0 /\ job = NoRun
    /\ opts = NoOpts /\ err = "none" /\ log = <<>>
    /\ schemaDiffs = <<>> /\ rediff = <<>>

CompareTablesCall ==
    /\ pc = "start"
    /\ tableDiffs' = compareSchemaTables(srcTables, destTables)
    /\ pc' = "tables diffed"
    /\ UNCHANGED <<src, dest, pre, heap, job, srcIds, destIds, idDiff, opts, err,
                   log, schemaDiffs, rediff, srcTables, destTables,
                   files, stdout>>

NextFields == CompareTablesCall

SpecFields == InitFields /\ [][NextFields]_vars

\* two fields equal in every attribute except nullability
EqualExceptNullability(f, g) ==
    \A i \in 1..Len(FieldKeys) :
        FieldKeys[i] # "is_null" => f[FieldKeys[i]] = g[FieldKeys[i]]

\* the fields of the source that have a field of the same table of the
\* destination equal to them in every attribute except nullability
NullabilityOnlyFields ==
    {f \in UNION {Range(srcTables[i].field_list) : i \in 1..Len(srcTables)} :
        \E i \in 1..Len(srcTables), j \in 1..Len(destTables) :
            /\ srcTables[i].name = destTables[j].name
            /\ f \in Range(srcTables[i].field_list)
            /\ \E g \in Range(destTables[j].field_list) :
                  EqualExceptNullability(f, g)}

AlterColumns ==
    UNION {{c \in Range(tableDiffs[k].changes) : c.type = "alter-column"} :
              k \in {n \in 1..Len(tableDiffs) :
                        tableDiffs[n].type = "alter-table"}}

\* C10: for two same-named fields of a source and a destination table
\* that are equal in every attribute except nullability, the field-level
\* diff holds no alter-column entry for that field.
NullabilityNormalized ==
    pc = "tables diffed" =>
        \A f \in NullabilityOnlyFields :
            \A c \in AlterColumns : c.field.name # f.name

NullabilityNormalizedWitness ==
    /\ pc = "tables diffed"
    /\ \E f \in NullabilityOnlyFields :
          \E g \in Range(destTables[1].field_list) :
              /\ g.name = f.name
              /\ g.is_null # f.is_null
    /\ AlterColumns # {}

\* the number of drop-column entries for the name in the alter-table
\* entries of the diff
DropColumnCount(name) ==
    LET alters == {k \in 1..Len(tableDiffs) : tableDiffs[k].type = "alter-table"}
        Drops(k) == {n \in 1..Len(tableDiffs[k].changes) :
                        /\ tableDiffs[k].changes[n].type = "drop-column"
                        /\ tableDiffs[k].changes[n].name = name}
    IN Cardinality(UNION {{<<k, n>> : n \in Drops(k)} : k \in alters})

\* the names of the destination table's fields that the source table of the
\* same name has no field for
DroppedNames ==
    {f.name : f \in Range(destTables[1].field_list)}
        \ {f.name : f \in Range(srcTables[1].field_list)}

\* C11: for a source and a destination table of the same name, the diff
\* holds exactly one drop-column entry for every destination field whose
\* name no source field has, and no drop-column entry for any other name,
\* whatever the other fields are.
DropColumnCompleteness ==
    (pc = "tables diffed" /\ Len(srcTables) = 1 /\ Len(destTables) = 1) =>
        \A name \in FieldNames :
            DropColumnCount(name) = IF name \in DroppedNames THEN 1 ELSE 0

\* C20: the field-level diff holds no alter-table entry whose list of
\* changes is empty; two same-named tables that differ only in the
\* nullability of their fields give no entry at all.
NoEmptyAlterTable ==
    pc = "tables diffed" =>
        \A k \in 1..Len(tableDiffs) :
            tableDiffs[k].type = "alter-table" => tableDiffs[k].changes # <<>>



(***************************************************************************)
(* The readers: scanTableNames, getIdField, scanTableIds, and the table    *)
(* parser the field-level scanSchema calls.                                *)
(***************************************************************************)
\* select name from sqlite_master where type = 'table' and sql is not null
scanTableNames(db) ==
    LET tables == SelectSeq(db.schema, LAMBDA row : row.type = "table")
    IN [i \in 1..Len(tables) |-> tables[i].name]

\* field is "" when the caller gives none
getIdField(table, field) ==
    IF field # "" THEN field
    ELSE CASE table = "sqlite_sequence" -> "name"
           [] table = "knex_migrations_lock" -> "index"
           [] OTHER -> "id"

\* scanTableIds: statement.all() without pluck() returns one new row object
\* per row, holding the selected column; base is the number of objects
\* allocated before the call
scanTableIds(db, table, field, base) ==
    LET column == getIdField(table, field)
        keys == KeyColumn(db, table)
    IN [i \in 1..Len(keys) |->
            [obj |-> base + i, column |-> column, value |-> keys[i]]]

\* parseTableSchema: the table definitions read from the create statements
ParsedFields(sqlBody) ==
    LET id == [name |-> "id", type |-> "integer", is_null |-> FALSE]
        name == [name |-> "name", type |-> "text", is_null |-> TRUE]
        email == [name |-> "email", type |-> "text", is_null |-> TRUE]
    IN IF sqlBody = "v1" THEN <<id, name>> ELSE <<id, name, email>>

parseTableSchema(rows) ==
    LET tables == SelectSeq(rows, LAMBDA row : row.type = "table")
    IN [i \in 1..Len(tables) |->
            [name |-> tables[i].name,
             field_list |-> ParsedFields(tables[i].sql.body)]]

RunKeys == 1..MaxRunKey

\* the databases of the given schemas, each table holding any set of keys
Databases(schemas) ==
    UNION {{[schema |-> rows, data |-> d] :
                d \in [TableNames(rows) -> SUBSET RunKeys]} :
              rows \in schemas}

TableSchemas ==
    {rows \in SeqsUpTo({TableRow(n, b) : n \in TableNameSet, b \in Bodies},
                       Cardinality(TableNameSet)) : ValidSchema(rows)}

(***************************************************************************)
(* Specification SpecOrder: the schemas of a source and of a destination   *)
(* compared by each revision of compareSchema.                             *)
(***************************************************************************)
InitOrder ==
    /\ pc = "start"
    /\ files = NoFiles /\ stdout = <<>>
    /\ src \in {EmptyDb(rows) : rows \in Schemas}
    /\ dest \in {EmptyDb(rows) : rows \in Schemas}
    /\ pre = NoDb
    /\ idDiff = NoDiff
    /\ srcIds = <<>> /\ destIds = <<>>
    /\ heap = 0 /\ job = NoRun
    /\ opts = NoOpts /\ err = "none" /\ log = <<>>
    /\ schemaDiffs = <<>> /\ rediff = <<>>
    /\ srcTables = <<>> /\ destTables = <<>> /\ tableDiffs = <<>>

\* the field-level revision: scanSchema parses the tables, compareSchema
\* compares the parsed tables
CompareParsedSchemas ==
    /\ pc = "start"
    /\ srcTables' = parseTableSchema(scanSchema(src))
    /\ destTables' = parseTableSchema(scanSchema(dest))
    /\ tableDiffs' = compareSchemaTables(parseTableSchema(scanSchema(src)),
                                         parseTableSchema(scanSchema(dest)))
    /\ pc' = "tables diffed"
    /\ UNCHANGED <<src, dest, pre, heap, job, srcIds, destIds, idDiff, opts, err,
                   log, schemaDiffs, rediff,
                   files, stdout>>

NextOrder == CompareSchemaCall \/ CompareParsedSchemas

SpecOrder == InitOrder /\ [][NextOrder]_vars

\* the rows of the source that the destination lacks or holds with another
\* definition, in the order of the source
ChangedRows ==
    SelectSeq(scanSchema(src),
              LAMBDA row : \A d \in Range(scanSchema(dest)) :
                               (d.type = row.type /\ d.name = row.name)
                                   => d.sql # row.sql)

\* the rows of the destination that the source lacks, in the order of the
\* destination
RemovedRows ==
    SelectSeq(scanSchema(dest),
              LAMBDA row : \A r \in Range(scanSchema(src)) :
                               ~(r.type = row.type /\ r.name = row.name))

ChangedTables ==
    SelectSeq(srcTables,
              LAMBDA table : \A d \in Range(destTables) :
                                 d.name = table.name => d # table)

RemovedTables ==
    SelectSeq(destTables,
              LAMBDA table : \A t \in Range(srcTables) : t.name # table.name)

\* C12: the list compareSchema returns is the created and updated entries
\* in the order of their objects in the source list, followed by the deleted
\* entries in the order of their objects in the destination list; no
\* deleted entry precedes a created or updated one.  The same holds of the
\* field-level revision with create-table, alter-table and drop-table.
DiffOrdering ==
    /\ pc = "schema diffed" =>
          /\ [k \in 1..Len(schemaDiffs) |-> schemaDiffs[k].schema]
                 = ChangedRows \o RemovedRows
          /\ \A k \in 1..Len(schemaDiffs) :
                 IF k <= Len(ChangedRows)
                 THEN schemaDiffs[k].type \in {"created", "updated"}
                 ELSE schemaDiffs[k].type = "deleted"
    /\ pc = "tables diffed" =>
          /\ Len(tableDiffs) = Len(ChangedTables) + Len(RemovedTables)
          /\ \A k \in 1..Len(tableDiffs) :
                 IF k <= Len(ChangedTables)
                 THEN \/ /\ tableDiffs[k].type = "create-table"
                         /\ tableDiffs[k].table = ChangedTables[k]
                      \/ /\ tableDiffs[k].type = "alter-table"
                         /\ \E d \in Range(destTables) :
                                d.name = ChangedTables[k].name
                 ELSE /\ tableDiffs[k].type = "drop-table"
                      /\ tableDiffs[k].name
                            = RemovedTables[k - Len(ChangedTables)].name

DiffOrderingWitness ==
    /\ pc = "schema diffed"
    /\ Len(schemaDiffs) >= 3
    /\ schemaDiffs[1].type = "created"
    /\ schemaDiffs[2].type = "updated"
    /\ schemaDiffs[3].type = "deleted"



(***************************************************************************)
(* Specification SpecNoOp: a database compared with an identical copy of   *)
(* itself, by both revisions of compareSchema and, table by table, by      *)
(* compareTableIds on the scans of the two databases.                      *)
(***************************************************************************)
InitNoOp ==
    /\ pc = "start"
    /\ files = NoFiles /\ stdout = <<>>
    /\ src \in Databases(Schemas)
    /\ dest = src
    /\ pre = NoDb
    /\ idDiff = NoDiff
    /\ srcIds = <<>> /\ destIds = <<>>
    /\ heap = 0 /\ job = NoRun
    /\ opts = NoOpts /\ err = "none" /\ log = <<>>
    /\ schemaDiffs = <<>> /\ rediff = <<>>
    /\ srcTables = <<>> /\ destTables = <<>> /\ tableDiffs = <<>>

CompareCopySchemas ==
    /\ pc = "start"
    /\ schemaDiffs' = compareSchema(scanSchema(src), scanSchema(dest))
    /\ srcTables' = parseTableSchema(scanSchema(src))
    /\ destTables' = parseTableSchema(scanSchema(dest))
    /\ tableDiffs' = compareSchemaTables(parseTableSchema(scanSchema(src)),
                                         parseTableSchema(scanSchema(dest)))
    /\ pc' = "schemas compared"
    /\ UNCHANGED <<src, dest, pre, heap, job, srcIds, destIds, idDiff, opts,
                   err, log, rediff,
                   files, stdout>>

CompareCopyIds ==
    /\ pc = "schemas compared"
    /\ \E i \in 1..Len(scanTableNames(src)) :
          LET table == scanTableNames(src)[i]
              srcList == scanTableIds(src, table, "", heap)
              destList == scanTableIds(dest, table, "", heap + Len(srcList))
          IN /\ srcIds' = srcList
             /\ destIds' = destList
             /\ idDiff' = compareTableIds(srcList, destList)
             /\ heap' = heap + Len(srcList) + Len(destList)
    /\ pc' = "ids compared"
    /\ UNCHANGED <<src, dest, pre, job, opts, err, log, schemaDiffs, rediff,
                   srcTables, destTables, tableDiffs,
                   files, stdout>>

NextNoOp == CompareCopySchemas \/ CompareCopyIds

SpecNoOp == InitNoOp /\ [][NextNoOp]_vars

\* C9: when the destination is an identical copy of the source,
\* compareSchema returns an empty list and compareTableIds returns
\* created = [] and deleted = [] for every table.
NoOpRoundTrip ==
    dest = src =>
        /\ pc \in {"schemas compared", "ids compared"} =>
              schemaDiffs = <<>> /\ tableDiffs = <<>>
        /\ pc = "ids compared" => idDiff = NoDiff

(***************************************************************************)
(* Specification SpecRun: the sync run of the driver.  The schema is       *)
(* compared and synced, then the keys of every table of the source are     *)
(* scanned and compared.  A run aborted by a failure is run once more,     *)
(* from fresh scans and with no further failure of the engine.             *)
(***************************************************************************)
InitRun ==
    /\ pc = "run start"
    /\ files = NoFiles /\ stdout = <<>>
    /\ src \in Databases(TableSchemas)
    /\ dest \in Databases(TableSchemas)
    /\ pre = NoDb
    /\ idDiff = NoDiff
    /\ srcIds = <<>> /\ destIds = <<>>
    /\ heap = 0 /\ job = [attempt |-> 1, todo |-> <<>>]
    /\ opts = NoOpts /\ err = "none" /\ log = <<>>
    /\ schemaDiffs = <<>> /\ rediff = <<>>
    /\ srcTables = <<>> /\ destTables = <<>> /\ tableDiffs = <<>>

\* the failures of the engine a run can meet: none on the second attempt
FailAts(attempt, statements) == IF attempt = 1 THEN 0..statements ELSE {0}

RunSchemaSync ==
    /\ pc = "run start"
    /\ LET diffs == compareSchema(scanSchema(src), scanSchema(dest))
       IN \E failAt \in FailAts(job.attempt, 2 * Len(diffs)) :
             LET done == syncSchema(dest, diffs, FALSE, failAt)
             IN /\ schemaDiffs' = diffs
                /\ dest' = done.db
                /\ err' = done.err
                /\ log' = done.log
                /\ opts' = [call |-> "syncSchema", skipTransaction |-> FALSE,
                            failAt |-> failAt]
                /\ pc' = IF done.err = "none" THEN "tables" ELSE "aborted"
                /\ job' = [job EXCEPT !.todo = IF done.err = "none"
                                               THEN scanTableNames(src)
                                               ELSE <<>>]
    /\ pre' = dest
    /\ UNCHANGED <<src, heap, srcIds, destIds, idDiff, rediff, srcTables,
                   destTables, tableDiffs,
                   files, stdout>>

\* the scans of a table issued before the schema sync of the run
RunCompareTable_early ==
    /\ pc = "run start"
    /\ heap = 0
    /\ \E table \in Range(scanTableNames(src)) :
          LET srcList == scanTableIds(src, table, "", heap)
              destList == scanTableIds(src, table, "", heap + Len(srcList))
          IN /\ srcIds' = srcList
             /\ destIds' = destList
             /\ idDiff' = compareTableIds(srcList, destList)
             /\ heap' = heap + Len(srcList) + Len(destList)
    /\ UNCHANGED <<src, dest, pre, opts, log, schemaDiffs, rediff, srcTables,
                   destTables, tableDiffs, err, pc, job,
                   files, stdout>>

RunCompareTable ==
    /\ pc = "tables"
    /\ job.todo # <<>>
    /\ \E failAt \in FailAts(job.attempt, 1) :
          LET table == Head(job.todo)
              srcList == scanTableIds(src, table, "", heap)
              destList == scanTableIds(src, table, "", heap + Len(srcList))
          IN IF failAt = 1
             THEN /\ err' = "engine failure"
                  /\ pc' = "aborted"
                  /\ job' = [job EXCEPT !.todo = <<>>]
                  /\ UNCHANGED <<srcIds, destIds, idDiff, heap>>
             ELSE /\ srcIds' = srcList
                  /\ destIds' = destList
                  /\ idDiff' = compareTableIds(srcList, destList)
                  /\ heap' = heap + Len(srcList) + Len(destList)
                  /\ job' = [job EXCEPT !.todo = Tail(job.todo)]
                  /\ UNCHANGED <<err, pc>>
    /\ UNCHANGED <<src, dest, pre, opts, log, schemaDiffs, rediff, srcTables,
                   destTables, tableDiffs,
                   files, stdout>>

RunDone ==
    /\ pc = "tables"
    /\ job.todo = <<>>
    /\ pc' = "done"
    /\ UNCHANGED <<src, dest, pre, heap, job, srcIds, destIds, idDiff, opts,
                   err, log, schemaDiffs, rediff, srcTables, destTables,
                   tableDiffs,
                   files, stdout>>

Rerun ==
    /\ pc = "aborted"
    /\ job.attempt = 1
    /\ pc' = "run start"
    /\ job' = [attempt |-> 2, todo |-> <<>>]
    /\ err' = "none"
    /\ UNCHANGED <<src, dest, pre, heap, srcIds, destIds, idDiff, opts, log,
                   schemaDiffs, rediff, srcTables, destTables, tableDiffs,
                   files, stdout>>

NextRun == RunSchemaSync \/ RunCompareTable \/ RunDone \/ Rerun

SpecRun == InitRun /\ [][NextRun]_vars

\* C8: if a sync run is aborted by a failure at any step, re-running the
\* whole sync from fresh scans, with no further failure and an unchanged
\* source, ends in a state where the schema diff and every table's row-key
\* diff between source and destination are empty.
RerunConverges ==
    (pc = "done" /\ job.attempt = 2) =>
        /\ compareSchema(scanSchema(src), scanSchema(dest)) = <<>>
        /\ \A t \in DOMAIN src.data :
              t \in DOMAIN dest.data /\ dest.data[t] = src.data[t]


\* the database after the statements from the i-th on have run
RECURSIVE RunLog(_, _, _)
RunLog(db, stmts, i) ==
    IF i > Len(stmts) THEN db ELSE RunLog(Effect(db, stmts[i]).db, stmts, i + 1)

\* a step that scans the keys of a table
RowStep == Len(job'.todo) < Len(job.todo) \/ heap' # heap \/ idDiff' # idDiff

\* a step that sends statements to the destination
SchemaStep == dest' # dest \/ log' # log

\* C13: in a sync run the transaction of the schema sync has committed or
\* rolled back before the first scan of the keys of any table; no step
\* mixes statements on the schema with a scan of rows, and after a rollback
\* the run scans no table.
PhaseOrdering ==
    [][/\ RowStep =>
             /\ pc = "tables"
             /\ opts.call = "syncSchema"
             /\ err = "none"
             /\ dest = RunLog(pre, log, 1)
             /\ ~SchemaStep
       /\ SchemaStep =>
             /\ pc = "run start"
             /\ ~RowStep
             /\ \A k \in 1..Len(log') : log'[k].op # "delete"
             /\ \/ pc' = "tables" /\ dest' = RunLog(dest, log', 1)
                \/ pc' = "aborted" /\ dest' = dest]_vars

PhaseOrderingWitness ==
    /\ pc = "done"
    /\ heap > 0
    /\ opts.call = "syncSchema"
    /\ log # <<>>
    /\ dest # pre



(***************************************************************************)
(* Specification SpecTables: the rows of a destination synced table by     *)
(* table, each table compared with the source and synced by its own call   *)
(* of syncTableIds; the first failing call ends the run.                   *)
(***************************************************************************)
TableOrder == <<"users", "posts">>

\* the databases that hold the tables of TableOrder, with rows of the keys
TableDbs(keys) ==
    {[schema |-> [i \in 1..Len(TableOrder) |-> TableRow(TableOrder[i], "v1")],
      data |-> d] : d \in [Range(TableOrder) -> SUBSET keys]}

TableBatchSizes == {Undefined, Num(1)}

InitTables ==
    /\ pc = "row sync"
    /\ files = NoFiles /\ stdout = <<>>
    /\ src \in TableDbs(RunKeys)
    /\ dest \in TableDbs(RowKeys)
    /\ pre = NoDb
    /\ job = [attempt |-> 1, todo |-> TableOrder, start |-> dest]
    /\ idDiff = NoDiff
    /\ srcIds = <<>> /\ destIds = <<>>
    /\ heap = 0
    /\ opts = NoOpts /\ err = "none" /\ log = <<>>
    /\ schemaDiffs = <<>> /\ rediff = <<>>
    /\ srcTables = <<>> /\ destTables = <<>> /\ tableDiffs = <<>>

SyncNextTable ==
    /\ pc = "row sync"
    /\ job.todo # <<>>
    /\ LET table == Head(job.todo)
           diff == compareTableIds(KeyColumn(src, table),
                                   KeyColumn(dest, table))
       IN \E batchSize \in TableBatchSizes, failAt \in 0..2 :
             LET done == syncTableIds(dest, table, diff, FALSE, batchSize,
                                      failAt)
             IN /\ idDiff' = diff
                /\ dest' = done.db
                /\ err' = done.err
                /\ log' = done.log
                /\ opts' = [call |-> "syncTableIds", skipTransaction |-> FALSE,
                            batchSize |-> batchSize, failAt |-> failAt]
                /\ pc' = IF done.err = "none" THEN "row sync" ELSE "aborted"
                /\ job' = IF done.err = "none"
                          THEN [job EXCEPT !.todo = Tail(job.todo)]
                          ELSE job
    /\ pre' = dest
    /\ UNCHANGED <<src, heap, srcIds, destIds, schemaDiffs, rediff, srcTables,
                   destTables, tableDiffs,
                   files, stdout>>

RowSyncDone ==
    /\ pc = "row sync"
    /\ job.todo = <<>>
    /\ pc' = "done"
    /\ UNCHANGED <<src, dest, pre, heap, job, srcIds, destIds, idDiff, opts,
                   err, log, schemaDiffs, rediff, srcTables, destTables,
                   tableDiffs,
                   files, stdout>>

NextTables == SyncNextTable \/ RowSyncDone

SpecTables == InitTables /\ [][NextTables]_vars

\* C14: when the sync of a table fails, the tables synced before it keep
\* what their syncs committed, the failing table is as it was before its
\* sync began, and the tables after it are untouched.
NoCrossTableAtomicity ==
    pc = "aborted" =>
        /\ dest.schema = job.start.schema
        /\ \A i \in 1..Len(TableOrder) :
              LET t == TableOrder[i]
              IN IF i <= Len(TableOrder) - Len(job.todo)
                 THEN dest.data[t] = job.start.data[t] \cap src.data[t]
                 ELSE dest.data[t] = job.start.data[t]

NoCrossTableAtomicityWitness ==
    /\ pc = "aborted"
    /\ Len(job.todo) = 1
    /\ dest.data[TableOrder[1]] # job.start.data[TableOrder[1]]
    /\ Len(log) >= 2
    /\ Effect(pre, log[1]).db # pre
    /\ dest = pre



(***************************************************************************)
(* The table exporter.  A row object is the list of its [column, value]    *)
(* pairs in column order; a value is null, a number or a string (a list    *)
(* of characters); a file's content is the list of its characters.         *)
(***************************************************************************)
NullValue == [t |-> "null"]
NumberValue(n) == [t |-> "number", n |-> n]
StringValue(chars) == [t |-> "string", chars |-> chars]

DigitText == <<"0", "1", "2", "3", "4", "5", "6", "7", "8", "9">>

\* the decimal text of a natural number
RECURSIVE NumberText(_)
NumberText(n) ==
    IF n < 10 THEN <<DigitText[n + 1]>>
    ELSE NumberText(n \div 10) \o <<DigitText[(n % 10) + 1]>>

\* JSON.stringify of one character of a string
EscapeChar(c) ==
    IF c = "\n" THEN <<"\\", "n">>
    ELSE IF c = "\"" THEN <<"\\", "\"">>
    ELSE IF c = "\\" THEN <<"\\", "\\">>
    ELSE <<c>>

\* JSON.stringify of a string
StringText(chars) ==
    <<"\"">> \o Flatten([i \in 1..Len(chars) |-> EscapeChar(chars[i])])
        \o <<"\"">>

ValueText(value) ==
    IF value.t = "null" THEN <<"n", "u", "l", "l">>
    ELSE IF value.t = "number" THEN NumberText(value.n)
    ELSE StringText(value.chars)

\* JSON.stringify of an array of values
JSONstringifyValues(values) ==
    <<"[">>
    \o Flatten([i \in 1..Len(values) |->
                   IF i = 1 THEN ValueText(values[i])
                   ELSE <<",">> \o ValueText(values[i])])
    \o <<"]">>

\* Object.values(row)
ObjectValues(row) == [i \in 1..Len(row) |-> row[i].value]

\* path.join(dir, name)
pathJoin(dir, name) == <<dir, "/", name>>

\* fs.writeFileSync(file, data): the file is created or replaced
writeFileSync(fsys, file, data) ==
    [f \in DOMAIN fsys \cup {file} |-> IF f = file THEN data ELSE fsys[f]]

\* fs.appendFileSync(file, data): the file is created if there is none
appendFileSync(fsys, file, data) ==
    [f \in DOMAIN fsys \cup {file} |->
        IF f # file THEN fsys[f]
        ELSE IF file \in DOMAIN fsys THEN fsys[file] \o data ELSE data]

\* the line the exporter writes to stdout at row i of n
ProgressLine(i, n) == [i |-> i, n |-> n]

\* lastLine = ''
NoLine == [i |-> 0, n |-> 0]

\* the loop of exportTableData over the rows, from the one after the i-th on;
\* p - lastP > 1 with p = i * 100 / n and lastP = lastI * 100 / n
RECURSIVE ExportRows(_, _, _, _, _, _, _)
ExportRows(st, file, rows, i, n, lastI, lastLine) ==
    IF i >= Len(rows)
    THEN [st EXCEPT !.stdout = Append(@, [clear |-> lastLine])]
    ELSE LET k == i + 1
             progress == (k - lastI) * 100 > n
             line == JSONstringifyValues(ObjectValues(rows[k])) \o <<"\n">>
             written ==
                 [files |-> appendFileSync(st.files, file, line),
                  stdout |-> IF progress
                             THEN Append(st.stdout, ProgressLine(k, n))
                             ELSE st.stdout]
         IN ExportRows(written, file, rows, k, n,
                       IF progress THEN k ELSE lastI,
                       IF progress THEN ProgressLine(k, n) ELSE lastLine)

\* exportTableData without the write that empties the file
exportTableData_append(fsys, out, db, name, dir) ==
    LET file == pathJoin(dir, name)
        rows == db.rows[Identifier(wrapName(name))]
    IN ExportRows([files |-> fsys, stdout |-> out], file, rows, 0, Len(rows),
                  0, NoLine)

exportTableData(fsys, out, db, name, dir) ==
    LET file == pathJoin(dir, name)
        rows == db.rows[Identifier(wrapName(name))]
    IN ExportRows([files |-> writeFileSync(fsys, file, <<>>), stdout |-> out],
                  file, rows, 0, Len(rows), 0, NoLine)

(***************************************************************************)
(* Specification SpecExport: the table of a source exported to its file,   *)
(* whatever the file holds, and exported again.                            *)
(***************************************************************************)
MaxRows == 2
MaxExports == 2

ExportDir == "res/data"

CellStrings == {<<"a">>, <<"a", "\n", "b">>}

\* the rows of a table of the columns id and name
ExportRowSet ==
    {<<[column |-> "id", value |-> NumberValue(id)],
       [column |-> "name", value |-> name]>> :
        id \in {1, 12},
        name \in {NullValue} \cup {StringValue(chars) : chars \in CellStrings}}

ExportDbs ==
    {[schema |-> <<TableRow(RowTable, "v1")>>,
      data |-> (RowTable :> {}),
      rows |-> (RowTable :> rows)] : rows \in SeqsUpTo(ExportRowSet, MaxRows)}

\* what the file system holds before the first export: the file of another
\* table, and for the file of the table nothing, no character, or lines
StaleLine == JSONstringifyValues(<<NumberValue(7)>>) \o <<"\n">>

OtherFile == pathJoin(ExportDir, "users")

FileSystems ==
    {f \in [{OtherFile, pathJoin(ExportDir, RowTable)}
               -> {<<>>, StaleLine, StaleLine \o StaleLine}] :
        f[OtherFile] = StaleLine}
    \cup {[f \in {OtherFile} |-> StaleLine]}

InitExport ==
    /\ pc = "export"
    /\ src \in ExportDbs
    /\ files \in FileSystems
    /\ stdout = <<>>
    /\ job = [attempt |-> 0, todo |-> <<RowTable>>]
    /\ dest = NoDb /\ pre = NoDb
    /\ idDiff = NoDiff
    /\ srcIds = <<>> /\ destIds = <<>>
    /\ heap = 0
    /\ opts = NoOpts /\ err = "none" /\ log = <<>>
    /\ schemaDiffs = <<>> /\ rediff = <<>>
    /\ srcTables = <<>> /\ destTables = <<>> /\ tableDiffs = <<>>

ExportTable ==
    /\ pc \in {"export", "exported"}
    /\ job.attempt < MaxExports
    /\ LET done == exportTableData(files, stdout, src, Head(job.todo),
                                   ExportDir)
       IN /\ files' = done.files
          /\ stdout' = done.stdout
    /\ opts' = [call |-> "exportTableData", name |-> Head(job.todo),
                dir |-> ExportDir]
    /\ job' = [job EXCEPT !.attempt = @ + 1]
    /\ pc' = "exported"
    /\ UNCHANGED <<src, dest, pre, heap, srcIds, destIds, idDiff, err, log,
                   schemaDiffs, rediff, srcTables, destTables, tableDiffs>>

NextExport == ExportTable

SpecExport == InitExport /\ [][NextExport]_vars

\* the lines of a text: the characters before each line feed
RECURSIVE Lines(_, _, _)
Lines(text, i, line) ==
    IF i > Len(text) THEN IF line = <<>> THEN <<>> ELSE <<line>>
    ELSE IF text[i] = "\n" THEN <<line>> \o Lines(text, i + 1, <<>>)
    ELSE Lines(text, i + 1, Append(line, text[i]))

ExportedRows == src.rows[RowTable]

\* C16: after exportTableData has completed for a table of N rows, the
\* file <dir>/<table> holds exactly N lines, the i-th being the JSON array of
\* the values of the i-th row in column order, whatever the file held
\* before the call; the file of another table is as it was.
FreshFullDump ==
    pc = "exported" =>
        LET text == files[pathJoin(ExportDir, RowTable)]
        IN /\ Len(Lines(text, 1, <<>>)) = Len(ExportedRows)
           /\ (text # <<>> => text[Len(text)] = "\n")
           /\ \A i \in 1..Len(ExportedRows) :
                 Lines(text, 1, <<>>)[i]
                     = JSONstringifyValues(ObjectValues(ExportedRows[i]))
           /\ files[OtherFile] = StaleLine

FreshFullDumpWitness ==
    /\ pc = "exported"
    /\ job.attempt = 2
    /\ Len(ExportedRows) = 2
    /\ ExportedRows[2][2].value = StringValue(<<"a", "\n", "b">>)
    /\ Len(Lines(files[pathJoin(ExportDir, RowTable)], 1, <<>>)) = 2



(***************************************************************************)
(* Specification SpecIdentity: the keys of a table read from its identity  *)
(* column in a source and a destination, compared, and the deleted keys    *)
(* synced.  The databases keep the whole rows of their tables.             *)
(***************************************************************************)
\* the tables and their columns: a table keyed by id that also has a
\* column uuid, the sequence table and the lock table
IdentityColumns ==
    [posts |-> <<"id", "uuid">>,
     sqlite_sequence |-> <<"name", "seq">>,
     knex_migrations_lock |-> <<"index", "is_locked">>]

BystanderTable == "users"

BystanderRows == <<<<[column |-> "id", value |-> NumberValue(1)]>>>>

CellNumbers == 1..(MaxRunKey + 1)

\* the lists of up to n rows of the columns, every column holding a value
\* once at most
RowLists(columns, n) ==
    {rows \in SeqsUpTo({[i \in 1..Len(columns) |->
                            [column |-> columns[i],
                             value |-> NumberValue(cells[i])]] :
                          cells \in [1..Len(columns) -> CellNumbers]}, n) :
        \A i, j \in 1..Len(rows) :
            i # j => \A c \in 1..Len(columns) :
                        rows[i][c].value # rows[j][c].value}

WideDb(table, rows) ==
    [schema |-> <<TableRow(table, "v1"), TableRow(BystanderTable, "v1")>>,
     columns |-> (table :> IdentityColumns[table]
                    @@ BystanderTable :> <<"id">>),
     rows |-> (table :> rows @@ BystanderTable :> BystanderRows),
     data |-> (table :> IdValues(IdentityColumns[table], rows)
                 @@ BystanderTable :> IdValues(<<"id">>, BystanderRows))]

\* the field option a caller passes to scanTableIds for the table
FieldOptions(table) == IF table = "posts" THEN {"", "uuid"} ELSE {""}

\* the values scanTableIds selects: the identity column of every row
ScanColumn(db, table, field) ==
    [i \in 1..Len(db.rows[table]) |->
        CellOf(db.rows[table][i], getIdField(table, field))]

InitIdentity ==
    /\ pc = "start"
    /\ files = NoFiles /\ stdout = <<>>
    /\ \E table \in DOMAIN IdentityColumns :
          /\ src \in {WideDb(table, rows) :
                         rows \in RowLists(IdentityColumns[table], 1)}
          /\ dest \in {WideDb(table, rows) :
                          rows \in RowLists(IdentityColumns[table], MaxRows)}
          /\ job \in {[attempt |-> 1, todo |-> <<table>>, field |-> f] :
                         f \in FieldOptions(table)}
    /\ pre = NoDb
    /\ idDiff = NoDiff
    /\ srcIds = <<>> /\ destIds = <<>>
    /\ heap = 0
    /\ opts = NoOpts /\ err = "none" /\ log = <<>>
    /\ schemaDiffs = <<>> /\ rediff = <<>>
    /\ srcTables = <<>> /\ destTables = <<>> /\ tableDiffs = <<>>

ScanIdentityKeys ==
    /\ pc = "start"
    /\ srcIds' = ScanColumn(src, Head(job.todo), job.field)
    /\ destIds' = ScanColumn(dest, Head(job.todo), job.field)
    /\ idDiff' = compareTableIds(ScanColumn(src, Head(job.todo), job.field),
                                 ScanColumn(dest, Head(job.todo), job.field))
    /\ pc' = "ids diffed"
    /\ UNCHANGED <<src, dest, pre, heap, job, opts, err, log, schemaDiffs,
                   rediff, srcTables, destTables, tableDiffs, files, stdout>>

SyncIdentityCall ==
    /\ pc = "ids diffed"
    /\ \E skipTransaction \in BOOLEAN, batchSize \in TableBatchSizes,
          failAt \in 0..1 :
          LET done == syncTableIds(dest, Head(job.todo), idDiff,
                                   skipTransaction, batchSize, failAt)
          IN /\ dest' = done.db
             /\ err' = done.err
             /\ log' = done.log
             /\ opts' = [call |-> "syncTableIds",
                         skipTransaction |-> skipTransaction,
                         batchSize |-> batchSize, failAt |-> failAt]
    /\ pre' = dest
    /\ pc' = "ids synced"
    /\ UNCHANGED <<src, heap, job, srcIds, destIds, idDiff, schemaDiffs, rediff,
                   srcTables, destTables, tableDiffs, files, stdout>>

NextIdentity == ScanIdentityKeys \/ SyncIdentityCall

SpecIdentity == InitIdentity /\ [][NextIdentity]_vars

\* the table the run is on, and the column scanTableIds read its keys from
SyncedTable == Head(job.todo)

IdentityColumn == getIdField(SyncedTable, job.field)

\* C18: the column syncTableIds matches the deleted keys against is the
\* identity column scanTableIds read the keys from, so that a call the
\* engine does not fail removes exactly the rows whose identity value is
\* among the deleted keys.
IdentityColumnConsistency ==
    (pc = "ids synced" /\ opts.failAt = 0) =>
        /\ \A i \in 1..Len(log) : log[i].column = IdentityColumn
        /\ err = "none"
        /\ dest.rows[SyncedTable]
              = SelectSeq(pre.rows[SyncedTable],
                          LAMBDA row : CellOf(row, IdentityColumn)
                                           \notin Range(idDiff.deleted))

\* C19: after a call of syncTableIds, with any batch size, in a transaction
\* or not, returning or failing, every row of the destination whose key is
\* not among the deleted keys is still there as it was, and no other table
\* of the destination has changed.
RowSyncFrame ==
    pc = "ids synced" =>
        /\ \A row \in Range(pre.rows[SyncedTable]) :
              CellOf(row, IdentityColumn) \notin Range(idDiff.deleted)
                  => row \in Range(dest.rows[SyncedTable])
        /\ dest.rows[BystanderTable] = pre.rows[BystanderTable]
        /\ dest.schema = pre.schema

=============================================================================
